---- MODULE Spec2Model ----
(***************************************************************************)
(* BAAble compliance engine (utils/compliance): analyzeCompliance,         *)
(* getDaysUntilExpiration, isExpiringsoon,                                 *)
(* calculateAgreementComplianceScore, calculateOverallComplianceScore.     *)
(*                                                                         *)
(* Time is counted in hours since the midnight (UTC) that starts "today"   *)
(* instead of milliseconds since the epoch: every duration of the code is  *)
(* a multiple of one hour in this model.  An expirationDate string         *)
(* "YYYY-MM-DD" is the number of its calendar day (0 = today); the string  *)
(* that Date cannot parse (for instance '') is InvalidDate.                *)
(***************************************************************************)
EXTENDS Integers, Sequences, FiniteSets, TLC

VARIABLES
    agreements,   \* Agreement[] handed to the functions
    now,          \* value returned by new Date().getTime(), in hours
    op,           \* the function called last
    arg,          \* index of the agreement scored last (0: none)
    issues,       \* ComplianceIssue[] returned by analyzeCompliance
    score,        \* number returned by the score function called last
    analysisToday,  \* const today of the running analyzeCompliance
    sum,          \* accumulator of the running reduce
    index,        \* position of the running reduce in agreements
    supabaseConfigured,  \* isSupabaseConfigured()
    db,           \* the rows of table agreements, latest updated_at first
    pending,      \* the addAgreement calls that await createAgreementAPI
    removed,      \* ids whose removeAgreement has completed
    calls,        \* operations of the session on the context so far
    listId,       \* identity of the array in the state (0: initialAgreements)
    memoDeps,     \* identity of the array the useMemo value was computed for
    inflight,     \* the updateAgreement calls of the API that are running
    requests      \* status of the rows of table signature_requests

clockVars == <<analysisToday, sum, index>>
hookVars == <<memoDeps>>
apiVars == <<inflight, requests>>
contextVars == <<supabaseConfigured, db, pending, removed, calls, listId, hookVars, apiVars>>
vars == <<agreements, now, op, arg, issues, score, clockVars, contextVars>>

-----------------------------------------------------------------------------
(* Numbers and dates                                                       *)

HoursPerDay == 24

\* Number.NaN: the time value of an Invalid Date
NaN == -1000000

\* the expirationDate string that new Date() cannot parse
InvalidDate == -1000

\* new Date(s).getTime(): a date-only ISO string is midnight UTC of its day
DateParse(s) == IF s = InvalidDate THEN NaN ELSE s * HoursPerDay

\* a - b on numbers
NumSub(a, b) == IF a = NaN \/ b = NaN THEN NaN ELSE a - b

\* a <= b, a > b on numbers: every comparison with NaN is false
NumLeq(a, b) == a # NaN /\ b # NaN /\ a <= b
NumGt(a, b) == a # NaN /\ b # NaN /\ a > b

\* Math.ceil(a / b) for b > 0
MathCeilDiv(a, b) == IF a = NaN THEN NaN ELSE -((-a) \div b)

\* Math.round(a / b) for a >= 0, b > 0: halves round up
MathRoundDivFloor(a, b) == a \div b
MathRoundDiv(a, b) == (2 * a + b) \div (2 * b)

\* Math.max(a, b)
MathMax(a, b) == IF a >= b THEN a ELSE b

-----------------------------------------------------------------------------
(* Types                                                                   *)

AgreementTypes == {"covered-entity", "business-associate", "subcontractor"}
AgreementStatuses == {"active", "expired", "draft"}
SignatureStatuses == {"fully-executed", "pending", "unsigned"}
SubcontractorApprovalTypes == {"required", "notification", "not-applicable"}

RECURSIVE Flatten(_)
\* the pushes of a loop, in order: the concatenation of ss[1], ss[2], ...
Flatten(ss) == IF ss = <<>> THEN <<>> ELSE Head(ss) \o Flatten(Tail(ss))

RECURSIVE SumSeq(_)
\* Array.prototype.reduce((sum, x) => sum + x, 0)
SumSeq(s) == IF s = <<>> THEN 0 ELSE Head(s) + SumSeq(Tail(s))

-----------------------------------------------------------------------------
(* analyzeCompliance                                                       *)

Issue(type, category, description, affectedAgreements) ==
    [type |-> type, category |-> category, description |-> description,
     affectedAgreements |-> affectedAgreements]

\* Rule 1, the comparison of one (subcontractor, business associate) pair
CascadeConflictAtLeast(subcontractor, ba) ==
    subcontractor.breachNotification >= ba.breachNotification
CascadeConflict(subcontractor, ba) ==
    subcontractor.breachNotification > ba.breachNotification

\* Rule 1, affectedAgreements of the issue of one pair
CascadeAffectedSubcontractorOnly(subcontractor, ba) == <<subcontractor.name>>
CascadeAffected(subcontractor, ba) == <<subcontractor.name, ba.name>>

\* Rule 1: for each subcontractor, for each business associate
CascadeIssues(ags) ==
    LET businessAssociates == SelectSeq(ags, LAMBDA a : a.type = "business-associate")
        subcontractors == SelectSeq(ags, LAMBDA a : a.type = "subcontractor")
        One(s, b) ==
            IF CascadeConflict(s, b)
            THEN <<Issue("critical", "Breach Notification Cascade",
                         <<s.breachNotification, b.breachNotification>>,
                         CascadeAffected(s, b))>>
            ELSE <<>>
        Inner(s) == Flatten([j \in 1..Len(businessAssociates) |->
                                One(s, businessAssociates[j])])
    IN  Flatten([i \in 1..Len(subcontractors) |-> Inner(subcontractors[i])])

NinetyDays == 90
CriticalDays == 30

\* Rule 2, the window: expirationDate <= ninetyDaysFromNow && expirationDate > today
ExpiresWithinNinetyDaysOrPast(expirationDate, today) ==
    NumLeq(DateParse(expirationDate), today + NinetyDays * HoursPerDay)
ExpiresWithinNinetyDaysNegated(expirationDate, today) ==
    /\ ~NumGt(DateParse(expirationDate), today + NinetyDays * HoursPerDay)
    /\ ~NumLeq(DateParse(expirationDate), today)
ExpiresWithinNinetyDays(expirationDate, today) ==
    /\ NumLeq(DateParse(expirationDate), today + NinetyDays * HoursPerDay)
    /\ NumGt(DateParse(expirationDate), today)

\* Rule 2, daysUntilExpiration of a flagged agreement
DaysUntilExpiration(expirationDate, today) ==
    MathCeilDiv(NumSub(DateParse(expirationDate), today), HoursPerDay)

\* Rule 2, the severity: daysUntilExpiration <= 30 ? 'critical' : 'warning'
ExpirationSeverityStrict(daysUntilExpiration) ==
    IF daysUntilExpiration < CriticalDays THEN "critical" ELSE "warning"
ExpirationSeverity(daysUntilExpiration) ==
    IF daysUntilExpiration <= CriticalDays THEN "critical" ELSE "warning"

\* Rule 2: for each agreement
ExpirationIssues(ags, today) ==
    LET One(a) ==
            IF ExpiresWithinNinetyDays(a.expirationDate, today)
            THEN LET daysUntilExpiration ==
                         DaysUntilExpiration(a.expirationDate, today)
                 IN  <<Issue(ExpirationSeverity(daysUntilExpiration),
                             "Agreement Expiration",
                             <<daysUntilExpiration, a.expirationDate>>,
                             <<a.name>>)>>
            ELSE <<>>
    IN  Flatten([i \in 1..Len(ags) |-> One(ags[i])])

\* Rule 3 and the fourth deduction of the score: a sensitive agreement
\* without audit rights
MissingAuditRightsBAOnly(a) ==
    a.type = "business-associate" /\ ~a.complianceTerms.auditRights
MissingAuditRights(a) ==
    /\ a.type = "business-associate" \/ a.type = "subcontractor"
    /\ ~a.complianceTerms.auditRights

\* Rule 3: for each agreement
AuditRightsIssues(ags) ==
    LET One(a) ==
            IF MissingAuditRights(a)
            THEN <<Issue("warning", "Audit Rights", <<>>, <<a.name>>)>>
            ELSE <<>>
    IN  Flatten([i \in 1..Len(ags) |-> One(ags[i])])

\* Rule 4, the condition on one agreement
SubcontractorGapAnyBA(a, ags) ==
    /\ a.type = "business-associate"
    /\ a.complianceTerms.subcontractorApproval = "not-applicable"
SubcontractorGap(a, ags) ==
    /\ a.type = "business-associate"
    /\ a.complianceTerms.subcontractorApproval = "not-applicable"
    /\ \E i \in 1..Len(ags) : ags[i].type = "subcontractor"

\* Rule 4: for each agreement
SubcontractorIssues(ags) ==
    LET One(a) ==
            IF SubcontractorGap(a, ags)
            THEN <<Issue("warning", "Subcontractor Management", <<>>, <<a.name>>)>>
            ELSE <<>>
    IN  Flatten([i \in 1..Len(ags) |-> One(ags[i])])

\* the issues in the order the four rules push them
PushedIssues(ags, today) ==
    CascadeIssues(ags) \o ExpirationIssues(ags, today)
        \o AuditRightsIssues(ags) \o SubcontractorIssues(ags)

\* issues.sort(...): Array.prototype.sort is stable, and the comparator
\* only separates 'critical' from the rest
SortBySeverityNoop(list) == list
SortBySeverityUnstable(list) ==
    LET critical == SelectSeq(list, LAMBDA x : x.type = "critical")
        others == SelectSeq(list, LAMBDA x : x.type # "critical")
    IN  critical \o [k \in 1..Len(others) |-> others[Len(others) + 1 - k]]
SortBySeverity(list) ==
    SelectSeq(list, LAMBDA x : x.type = "critical")
        \o SelectSeq(list, LAMBDA x : x.type # "critical")

analyzeCompliance(ags, today) == SortBySeverity(PushedIssues(ags, today))

\* the array passed to analyzeCompliance and to the score functions after
\* the call: they only read it (filter, some, reduce, map and for-of), and
\* the sort is applied to the local array issues
ArgumentAfterCallSorted(ags) ==
    SelectSeq(ags, LAMBDA a : a.type = "subcontractor")
        \o SelectSeq(ags, LAMBDA a : a.type # "subcontractor")
ArgumentAfterCall(ags) == ags

-----------------------------------------------------------------------------
(* Scores                                                                  *)

getDaysUntilExpiration(expirationDate, today) ==
    MathCeilDiv(NumSub(DateParse(expirationDate), today), HoursPerDay)

isExpiringsoon(expirationDate, thresholdDays, today) ==
    NumLeq(getDaysUntilExpiration(expirationDate, today), thresholdDays)

NotExecutedDeduction == 25
ExpiredDeduction == 30
ExpiringSoonDeduction == 15
AuditRightsDeduction == 10
BreachNotificationDeduction == 10
SoonDays == 30
MaxBreachHours == 72

\* a slip that makes the deductions exclusive: else-if instead of if
calculateAgreementComplianceScoreElseIf(agreement, today) ==
    LET d == IF agreement.signatureStatus # "fully-executed"
                 THEN NotExecutedDeduction
             ELSE IF agreement.status = "expired" THEN ExpiredDeduction
             ELSE IF isExpiringsoon(agreement.expirationDate, SoonDays, today)
                 THEN ExpiringSoonDeduction
             ELSE IF MissingAuditRights(agreement) THEN AuditRightsDeduction
             ELSE IF agreement.breachNotification > MaxBreachHours
                 THEN BreachNotificationDeduction
             ELSE 0
    IN  MathMax(0, 100 - d)

\* a slip of sign in the first deduction: score += 25
calculateAgreementComplianceScorePlus(agreement, today) ==
    LET s0 == 100
        s1 == IF agreement.signatureStatus # "fully-executed"
                  THEN s0 + NotExecutedDeduction ELSE s0
        s2 == IF agreement.status = "expired" THEN s1 - ExpiredDeduction ELSE s1
        s3 == IF isExpiringsoon(agreement.expirationDate, SoonDays, today)
                  THEN s2 - ExpiringSoonDeduction ELSE s2
        s4 == IF MissingAuditRights(agreement) THEN s3 - AuditRightsDeduction ELSE s3
        s5 == IF agreement.breachNotification > MaxBreachHours
                  THEN s4 - BreachNotificationDeduction ELSE s4
    IN  MathMax(0, s5)

\* a slip in the second deduction: 40 points for an expired agreement
calculateAgreementComplianceScoreHeavy(agreement, today) ==
    LET s0 == 100
        s1 == IF agreement.signatureStatus # "fully-executed"
                  THEN s0 - NotExecutedDeduction ELSE s0
        s2 == IF agreement.status = "expired" THEN s1 - 40 ELSE s1
        s3 == IF isExpiringsoon(agreement.expirationDate, SoonDays, today)
                  THEN s2 - ExpiringSoonDeduction ELSE s2
        s4 == IF MissingAuditRights(agreement) THEN s3 - AuditRightsDeduction ELSE s3
        s5 == IF agreement.breachNotification > MaxBreachHours
                  THEN s4 - BreachNotificationDeduction ELSE s4
    IN  MathMax(0, s5)

calculateAgreementComplianceScore(agreement, today) ==
    LET s0 == 100
        s1 == IF agreement.signatureStatus # "fully-executed"
                  THEN s0 - NotExecutedDeduction ELSE s0
        s2 == IF agreement.status = "expired" THEN s1 - ExpiredDeduction ELSE s1
        s3 == IF isExpiringsoon(agreement.expirationDate, SoonDays, today)
                  THEN s2 - ExpiringSoonDeduction ELSE s2
        s4 == IF MissingAuditRights(agreement) THEN s3 - AuditRightsDeduction ELSE s3
        s5 == IF agreement.breachNotification > MaxBreachHours
                  THEN s4 - BreachNotificationDeduction ELSE s4
    IN  MathMax(0, s5)

calculateOverallComplianceScore(ags, today) ==
    IF Len(ags) = 0 THEN 100
    ELSE LET totalScore ==
                 SumSeq([i \in 1..Len(ags) |->
                            calculateAgreementComplianceScore(ags[i], today)])
         IN  MathRoundDiv(totalScore, Len(ags))

-----------------------------------------------------------------------------
(* Inputs                                                                  *)

MaxCascade == 4
MaxTerms == 3
MaxMixed == 3
MaxExpiry == 2
MaxScored == 3
MaxMalformed == 3

\* the instants at which the functions are called: 21:00 of the day before
\* today, and today at 00:00 and 09:00 (UTC)
NowSet == {-3, 0, 9}

\* a date far beyond every threshold
FarDay == 400

\* the expirationDate strings: calendar days relative to today, and ''
ExpirationDates ==
    {-40, -1, 0, 1, 25, 30, 31, 60, 90, 91, 120, FarDay, InvalidDate}

AgreementNames == <<"BAA-1", "BAA-2", "BAA-3", "BAA-4", "BAA-5", "BAA-6">>

\* an Agreement without its id and name
Fields(type, expirationDate, status, signatureStatus, hours, audit, approval) ==
    [type |-> type, expirationDate |-> expirationDate, status |-> status,
     signatureStatus |-> signatureStatus, breachNotification |-> hours,
     complianceTerms |-> [breachNotificationHours |-> hours,
                          auditRights |-> audit,
                          subcontractorApproval |-> approval]]

\* the version record of a new agreement
InitialVersion == [version |-> 1, changes |-> "Initial version created"]

\* id, name and version history of the i-th agreement of an input list
Identity(i) ==
    [id |-> i, name |-> AgreementNames[i], versions |-> <<InitialVersion>>,
     currentVersion |-> 1]

\* the agreement lists of at most n agreements drawn from pool; the i-th
\* agreement has id i and the i-th name
ListsOf(pool, n) ==
    UNION {{[i \in 1..k |-> Identity(i) @@ f[i]] :
               f \in [1..k -> pool]} : k \in 0..n}

\* one agreement, every combination of the fields the functions read
SinglePool ==
    {Fields(t, e, st, sg, h, au, sa) :
        t \in AgreementTypes, e \in ExpirationDates, st \in AgreementStatuses,
        sg \in SignatureStatuses, h \in {24, 72, 73, 96}, au \in BOOLEAN,
        sa \in SubcontractorApprovalTypes}

\* Rule 1: types and hours
CascadePool ==
    {Fields(t, FarDay, "active", "fully-executed", h, TRUE, "required") :
        t \in {"business-associate", "subcontractor"}, h \in {24, 48, 72}}
    \cup {Fields("covered-entity", FarDay, "active", "fully-executed", h, TRUE,
                 "required") : h \in {24, 72}}

\* Rules 3 and 4: types and compliance terms
TermsPool ==
    {Fields("business-associate", FarDay, "active", "fully-executed", 24, au, sa) :
        au \in BOOLEAN, sa \in SubcontractorApprovalTypes}
    \cup {Fields("subcontractor", FarDay, "active", "fully-executed", 24, au,
                 "not-applicable") : au \in BOOLEAN}
    \cup {Fields("covered-entity", FarDay, "active", "fully-executed", 24, au,
                 "not-applicable") : au \in BOOLEAN}

\* the four rules together
MixedPool ==
    {Fields("business-associate", e, "active", "fully-executed", 24, au,
            "not-applicable") : e \in {25, 60}, au \in BOOLEAN}
    \cup {Fields("subcontractor", e, "active", "fully-executed", 48, au,
                 "required") : e \in {25, 60}, au \in BOOLEAN}

\* Rule 2: dates
ExpiryPool ==
    {Fields("covered-entity", e, "active", "fully-executed", 24, TRUE, "required") :
        e \in ExpirationDates}

\* the organization score: agreements of different scores
ScoredPool ==
    {Fields("covered-entity", FarDay, st, sg, h, TRUE, "required") :
        st \in {"active", "expired"}, sg \in {"fully-executed", "unsigned"},
        h \in {24, 96}}

\* agreements with an unparseable expirationDate next to others
MalformedPool ==
    {Fields("business-associate", e, "active", "fully-executed", 24, au,
            "not-applicable") : e \in {InvalidDate, 25, 60}, au \in BOOLEAN}
    \cup {Fields("subcontractor", e, "active", "fully-executed", 48, au,
                 "required") : e \in {InvalidDate, 25, 60}, au \in BOOLEAN}

InputLists ==
    {<<Identity(1) @@ f>> : f \in SinglePool}
    \cup ListsOf(CascadePool, MaxCascade)
    \cup ListsOf(TermsPool, MaxTerms)
    \cup ListsOf(MixedPool, MaxMixed)
    \cup ListsOf(ExpiryPool, MaxExpiry)
    \cup ListsOf(ScoredPool, MaxScored)
    \cup ListsOf(MalformedPool, MaxMalformed)

-----------------------------------------------------------------------------
(* The calls                                                               *)

Init ==
    /\ agreements \in InputLists
    /\ now \in NowSet
    /\ op = "none"
    /\ arg = 0
    /\ issues = <<>>
    /\ score = 0
    /\ analysisToday = 0 /\ sum = 0 /\ index = 0
    /\ supabaseConfigured = FALSE /\ db = <<>> /\ pending = <<>> /\ removed = {}
    /\ calls = 0
    /\ listId = 0 /\ memoDeps = -1 /\ inflight = <<>> /\ requests = <<>>

\* const issues = analyzeCompliance(agreements)
AnalyzeCompliance ==
    /\ op' = "analyzeCompliance"
    /\ arg' = 0
    /\ issues' = analyzeCompliance(agreements, now)
    /\ score' = 0
    /\ agreements' = ArgumentAfterCall(agreements)
    /\ UNCHANGED <<now, clockVars, contextVars>>

\* calculateAgreementComplianceScore(agreements[i])
CalculateAgreementComplianceScore(i) ==
    /\ op' = "calculateAgreementComplianceScore"
    /\ arg' = i
    /\ issues' = <<>>
    /\ score' = calculateAgreementComplianceScore(agreements[i], now)
    /\ agreements' = ArgumentAfterCall(agreements)
    /\ UNCHANGED <<now, clockVars, contextVars>>

\* calculateOverallComplianceScore(agreements)
CalculateOverallComplianceScore ==
    /\ op' = "calculateOverallComplianceScore"
    /\ arg' = 0
    /\ issues' = <<>>
    /\ score' = calculateOverallComplianceScore(agreements, now)
    /\ agreements' = ArgumentAfterCall(agreements)
    /\ UNCHANGED <<now, clockVars, contextVars>>

Next ==
    \/ AnalyzeCompliance
    \/ \E i \in 1..Len(agreements) : CalculateAgreementComplianceScore(i)
    \/ CalculateOverallComplianceScore

Spec == Init /\ [][Next]_vars

-----------------------------------------------------------------------------
(* The calls while the clock runs                                          *)

MaxClock == 2

\* agreements around the 30 days of the score
ClockPool ==
    {Fields("covered-entity", e, "active", sg, 24, TRUE, "required") :
        e \in {30, 60, FarDay}, sg \in {"fully-executed", "unsigned"}}

InitClock ==
    /\ agreements \in ListsOf(ClockPool, MaxClock)
    /\ now \in NowSet
    /\ op = "none"
    /\ arg = 0
    /\ issues = <<>>
    /\ score = 0
    /\ analysisToday = 0 /\ sum = 0 /\ index = 0
    /\ supabaseConfigured = FALSE /\ db = <<>> /\ pending = <<>> /\ removed = {}
    /\ calls = 0
    /\ listId = 0 /\ memoDeps = -1 /\ inflight = <<>> /\ requests = <<>>

\* no call is running: the functions are synchronous
Idle == op \notin {"analyzeCompliance:running", "calculateOverallComplianceScore:running"}

\* the wall clock advances
Tick ==
    /\ \E t \in NowSet : t > now /\ now' = t
    /\ UNCHANGED <<agreements, op, arg, issues, score, clockVars, contextVars>>

\* analyzeCompliance up to const today = new Date()
AnalyzeStart ==
    /\ Idle
    /\ op' = "analyzeCompliance:running"
    /\ analysisToday' = now
    /\ arg' = 0 /\ issues' = <<>> /\ score' = 0
    /\ UNCHANGED <<agreements, now, sum, index, contextVars>>

\* analyzeCompliance from the loop of Rule 2 to return issues
AnalyzeReturn ==
    /\ op = "analyzeCompliance:running"
    /\ op' = "analyzeCompliance"
    /\ issues' = analyzeCompliance(agreements, analysisToday)
    /\ agreements' = ArgumentAfterCall(agreements)
    /\ UNCHANGED <<now, arg, score, clockVars, contextVars>>

\* calculateOverallComplianceScore up to the reduce
OverallStart ==
    /\ Idle
    /\ arg' = 0 /\ issues' = <<>>
    /\ IF Len(agreements) = 0
       THEN op' = "calculateOverallComplianceScore" /\ score' = 100
               /\ UNCHANGED <<sum, index>>
       ELSE op' = "calculateOverallComplianceScore:running" /\ score' = 0
               /\ sum' = 0 /\ index' = 1
    /\ UNCHANGED <<agreements, now, analysisToday, contextVars>>

\* one turn of the reduce: calculateAgreementComplianceScore reads the clock
\* in getDaysUntilExpiration
OverallStep ==
    /\ op = "calculateOverallComplianceScore:running"
    /\ index <= Len(agreements)
    /\ sum' = sum + calculateAgreementComplianceScore(agreements[index], now)
    /\ index' = index + 1
    /\ UNCHANGED <<agreements, now, op, arg, issues, score, analysisToday, contextVars>>

\* return Math.round(totalScore / agreements.length)
OverallReturn ==
    /\ op = "calculateOverallComplianceScore:running"
    /\ index > Len(agreements)
    /\ op' = "calculateOverallComplianceScore"
    /\ score' = MathRoundDiv(sum, Len(agreements))
    /\ agreements' = ArgumentAfterCall(agreements)
    /\ UNCHANGED <<now, arg, issues, clockVars, contextVars>>

NextClock ==
    \/ Tick
    \/ AnalyzeStart
    \/ AnalyzeReturn
    \/ OverallStart
    \/ OverallStep
    \/ OverallReturn

SpecClock == InitClock /\ [][NextClock]_vars

-----------------------------------------------------------------------------
(* The agreement list of AgreementProvider and the tables behind it        *)

MaxList == 3
MaxId == 3
MaxRows == 2
MaxPending == 1
MaxVersion == 2
MaxCalls == 5

\* one record of Agreement.versions
Version(n, changes) == [version |-> n, changes |-> changes]

\* the mock data the list starts with, and falls back to
initialAgreements ==
    << [id |-> 1, name |-> "Acme Healthcare BAA",
        versions |-> <<Version(1, "Initial version drafted"),
                       Version(2, "Added audit rights clause and subcontractor provisions"),
                       Version(3, "Final version with all parties' signatures")>>,
        currentVersion |-> 3]
         @@ Fields("business-associate", 75, "active", "fully-executed", 24, TRUE, "required"),
       [id |-> 2, name |-> "CloudStore Subcontractor BAA",
        versions |-> <<Version(1, "Initial draft based on standard template"),
                       Version(2, "Executed with signature pages appended")>>,
        currentVersion |-> 2]
         @@ Fields("subcontractor", 92, "active", "fully-executed", 48, TRUE, "notification") >>

\* the hours a form can carry
FormHours == {24, 72}

\* the NewAgreement forms submitted to addAgreement
NewAgreements ==
    [name : {"Vendor BAA"}, type : {"subcontractor"},
     expirationDate : {FarDay}, breachNotification : FormHours,
     auditRights : {TRUE}, subcontractorApproval : {"required", "notification"}]

\* the primary key the database gives the k-th row inserted
FirstUuid == 101
UuidOf(k) == FirstUuid + k - 1

\* the organization's table when the session starts: one agreement created
\* in an earlier session
StoredRows ==
    <<[id |-> UuidOf(1), name |-> "Stored BAA", type |-> "business-associate",
       expiration_date |-> FarDay, status |-> "active",
       signature_status |-> "fully-executed", current_version |-> 1,
       deleted_at |-> FALSE,
       compliance_terms |-> <<[breach_notification_hours |-> 24,
                               audit_rights |-> TRUE,
                               subcontractor_approval |-> TRUE]>>,
       versions |-> <<[version_number |-> 1,
                       changes |-> "Initial agreement created"]>>]>>

\* the ids of a list of agreements or rows
IdsOf(list) == {list[i].id : i \in 1..Len(list)}

\* Math.max(...agreements.map((a) => Number(a.id))) + 1, or 1
NextId(list) ==
    IF Len(list) > 0
    THEN (CHOOSE m \in IdsOf(list) : \A n \in IdsOf(list) : n <= m) + 1
    ELSE 1

\* the Agreement addAgreement builds from the form
NewAgreementOf(id, form, signatureStatus, changes) ==
    [id |-> id, name |-> form.name,
     versions |-> <<Version(1, changes)>>, currentVersion |-> 1]
      @@ Fields(form.type, form.expirationDate, "draft", signatureStatus,
                form.breachNotification, form.auditRights, form.subcontractorApproval)

\* the rows of createAgreement after `done` of its three inserts
CreatedRow(id, form, done) ==
    [id |-> id, name |-> form.name, type |-> form.type,
     expiration_date |-> form.expirationDate,
     status |-> "draft", signature_status |-> "unsigned",
     current_version |-> 1, deleted_at |-> FALSE,
     compliance_terms |->
        IF done >= 2
        THEN <<[breach_notification_hours |-> form.breachNotification,
                audit_rights |-> form.auditRights,
                subcontractor_approval |-> form.subcontractorApproval = "required"]>>
        ELSE <<>>,
     versions |->
        IF done >= 3
        THEN <<[version_number |-> 1, changes |-> "Initial agreement created"]>>
        ELSE <<>>]

\* breach_notification_hours || 72
HoursOrDefault(terms) ==
    IF terms = <<>> \/ terms[1].breach_notification_hours = 0
    THEN 72
    ELSE terms[1].breach_notification_hours

mapRowToAgreement(row) ==
    [id |-> row.id, name |-> row.name,
     versions |-> [v \in 1..Len(row.versions) |->
                      Version(row.versions[v].version_number, row.versions[v].changes)],
     currentVersion |-> row.current_version]
      @@ Fields(row.type, row.expiration_date, row.status, row.signature_status,
                HoursOrDefault(row.compliance_terms),
                IF row.compliance_terms = <<>> THEN TRUE
                ELSE row.compliance_terms[1].audit_rights,
                IF row.compliance_terms # <<>>
                      /\ row.compliance_terms[1].subcontractor_approval
                THEN "required" ELSE "not-applicable")

\* the rows fetchAgreements returns: not soft-deleted, latest update first
fetchAgreements == SelectSeq(db, LAMBDA row : ~row.deleted_at)

\* the position of the row with this id, 0 when there is none
RowIndex(id) ==
    IF id \in IdsOf(db) THEN CHOOSE k \in 1..Len(db) : db[k].id = id ELSE 0

\* the table after an UPDATE of the k-th row: updated_at puts it first
Updated(k, row) ==
    <<row>> \o SubSeq(db, 1, k - 1) \o SubSeq(db, k + 1, Len(db))

\* the updates EditAgreementModal saves for an agreement
EditUpdates(a) ==
    {[name |-> a.name, type |-> a.type, expirationDate |-> a.expirationDate,
      status |-> st,
      complianceTerms |-> [breachNotificationHours |-> h,
                           auditRights |-> a.complianceTerms.auditRights,
                           subcontractorApproval |->
                               a.complianceTerms.subcontractorApproval]] :
        st \in {a.status}, h \in FormHours}

\* the updates AgreementDetailModal saves
DetailUpdates == {[status |-> st] : st \in {"expired"}}

\* { ...agreement, ...updates } for the agreement with this id
Spread(list, id, updates) ==
    [i \in 1..Len(list) |->
        IF list[i].id = id THEN updates @@ list[i] ELSE list[i]]

\* the row after updateAgreement of the API: fields, terms, version bump
UpdatedRow(row, updates) ==
    LET hasTerms == "complianceTerms" \in DOMAIN updates
        hasDate == "expirationDate" \in DOMAIN updates
                      /\ updates.expirationDate # InvalidDate
        newVersion == row.current_version + 1
    IN  [row EXCEPT
            !.name = IF "name" \in DOMAIN updates THEN updates.name ELSE @,
            !.type = IF "type" \in DOMAIN updates THEN updates.type ELSE @,
            !.expiration_date = IF hasDate THEN updates.expirationDate ELSE @,
            !.status = IF "status" \in DOMAIN updates THEN updates.status ELSE @,
            !.compliance_terms =
                IF hasTerms /\ @ # <<>>
                THEN <<[breach_notification_hours |->
                            updates.complianceTerms.breachNotificationHours,
                        audit_rights |-> updates.complianceTerms.auditRights,
                        subcontractor_approval |->
                            updates.complianceTerms.subcontractorApproval = "required"]>>
                ELSE @,
            !.current_version = newVersion,
            !.versions = Append(@, [version_number |-> newVersion,
                                    changes |-> "Agreement updated"])]

InitContext ==
    /\ agreements = initialAgreements
    /\ supabaseConfigured \in BOOLEAN
    /\ db = IF supabaseConfigured THEN StoredRows ELSE <<>>
    /\ pending = <<>>
    /\ removed = {}
    /\ calls = 0
    /\ listId = 0 /\ memoDeps = -1 /\ inflight = <<>> /\ requests = <<>>
    /\ now = 0
    /\ op = "none"
    /\ arg = 0
    /\ issues = <<>>
    /\ score = 0
    /\ analysisToday = 0 /\ sum = 0 /\ index = 0

\* one more operation of the session on the context
Call == calls < MaxCalls /\ calls' = calls + 1

\* addAgreement without Supabase: the mock branch
AddAgreementMock ==
    /\ ~supabaseConfigured
    /\ Len(agreements) < MaxList
    /\ NextId(agreements) <= MaxId
    /\ \E form \in NewAgreements :
          agreements' = Append(agreements,
                               NewAgreementOf(NextId(agreements), form, "pending",
                                              InitialVersion.changes))
    /\ op' = "addAgreement"
    /\ arg' = NextId(agreements)
    /\ Call
    /\ listId' = calls + 1
    /\ UNCHANGED <<now, issues, score, clockVars, supabaseConfigured, db, pending, removed>>
    /\ UNCHANGED <<hookVars, apiVars>>

\* addAgreement with Supabase, up to the await: createAgreement of the API
\* performs `done` of its three inserts and throws when one is left
AddAgreementCall ==
    /\ supabaseConfigured
    /\ Len(db) < MaxRows
    /\ Len(pending) < MaxPending
    /\ \E form \in NewAgreements, done \in 0..3 :
          LET id == UuidOf(Len(db) + 1)
          IN  /\ db' = IF done = 0 THEN db
                       ELSE <<CreatedRow(id, form, done)>> \o db
              /\ IF done = 3
                 THEN /\ pending' = Append(pending,
                                        [agreements |-> agreements, form |-> form,
                                         createdRow |-> CreatedRow(id, form, done)])
                      /\ op' = "addAgreement:pending"
                 ELSE /\ pending' = pending
                      /\ op' = "addAgreement:failed"
              /\ arg' = id
    /\ Call
    /\ UNCHANGED <<agreements, now, issues, score, clockVars, supabaseConfigured, removed>>
    /\ UNCHANGED <<listId, hookVars, apiVars>>

\* addAgreement with Supabase, after the await: the list the callback closed
\* over, plus the new agreement
AddAgreementResolve ==
    /\ pending # <<>>
    /\ LET call == Head(pending)
       IN  /\ agreements' = Append(call.agreements,
                                   NewAgreementOf(call.createdRow.id, call.form,
                                                  "unsigned",
                                                  "Initial agreement created"))
           /\ arg' = call.createdRow.id
    /\ pending' = Tail(pending)
    /\ op' = "addAgreement"
    /\ Call
    /\ listId' = calls + 1
    /\ UNCHANGED <<now, issues, score, clockVars, supabaseConfigured, db, removed>>
    /\ UNCHANGED <<hookVars, apiVars>>

\* removeAgreement(id) for an agreement on screen; with Supabase the soft
\* delete comes first and a failure leaves the list alone
RemoveAgreement ==
    \E id \in IdsOf(agreements), ok \in BOOLEAN :
       LET k == RowIndex(id)
           deleted == ~supabaseConfigured \/ (ok /\ k > 0)
       IN  /\ arg' = id
           /\ IF deleted
              THEN /\ agreements' = SelectSeq(agreements, LAMBDA a : a.id # id)
                   /\ removed' = removed \cup {id}
                   /\ db' = IF supabaseConfigured
                            THEN Updated(k, [db[k] EXCEPT !.deleted_at = TRUE])
                            ELSE db
                   /\ op' = "removeAgreement"
                   /\ listId' = calls + 1
              ELSE /\ UNCHANGED <<agreements, removed, db, listId>>
                   /\ op' = "removeAgreement:failed"
           /\ Call
           /\ UNCHANGED <<now, issues, score, clockVars, supabaseConfigured, pending>>
           /\ UNCHANGED <<hookVars, apiVars>>

\* updateAgreement(id, updates) for an agreement on screen
UpdateAgreementWith(id, updates, ok) ==
    LET k == RowIndex(id)
        saved == ~supabaseConfigured \/ (ok /\ k > 0)
    IN  /\ arg' = id
        /\ IF saved
           THEN /\ agreements' = Spread(agreements, id, updates)
                /\ db' = IF supabaseConfigured
                         THEN Updated(k, UpdatedRow(db[k], updates))
                         ELSE db
                /\ op' = "updateAgreement"
                /\ listId' = calls + 1
           ELSE /\ UNCHANGED <<agreements, db, listId>>
                /\ op' = "updateAgreement:failed"
        /\ Call
        /\ UNCHANGED <<now, issues, score, clockVars, supabaseConfigured, pending, removed>>
        /\ UNCHANGED <<hookVars, apiVars>>

\* Save Changes of EditAgreementModal
EditAgreement ==
    \E i \in 1..Len(agreements), ok \in BOOLEAN :
       /\ supabaseConfigured /\ RowIndex(agreements[i].id) > 0
             => db[RowIndex(agreements[i].id)].current_version < MaxVersion
       /\ \E updates \in EditUpdates(agreements[i]) :
             UpdateAgreementWith(agreements[i].id, updates, ok)

\* Save Changes of AgreementDetailModal
ChangeStatus ==
    \E i \in 1..Len(agreements), ok \in BOOLEAN :
       /\ supabaseConfigured /\ RowIndex(agreements[i].id) > 0
             => db[RowIndex(agreements[i].id)].current_version < MaxVersion
       /\ \E updates \in DetailUpdates :
             UpdateAgreementWith(agreements[i].id, updates, ok)

\* refreshAgreements: the mock data without Supabase or when the fetch fails
RefreshAgreements ==
    /\ \E ok \in BOOLEAN :
          IF supabaseConfigured /\ ok
          THEN /\ agreements' = [i \in 1..Len(fetchAgreements) |->
                                    mapRowToAgreement(fetchAgreements[i])]
               /\ listId' = calls + 1
          ELSE /\ agreements' = initialAgreements
               /\ listId' = 0
    /\ op' = "refreshAgreements"
    /\ arg' = 0
    /\ Call
    /\ UNCHANGED <<now, issues, score, clockVars, supabaseConfigured, db, pending, removed>>
    /\ UNCHANGED <<hookVars, apiVars>>

NextContext ==
    \/ AddAgreementMock
    \/ AddAgreementCall
    \/ AddAgreementResolve
    \/ RemoveAgreement
    \/ EditAgreement
    \/ ChangeStatus
    \/ RefreshAgreements

SpecContext == InitContext /\ [][NextContext]_vars

-----------------------------------------------------------------------------
(* useComplianceAnalysis over the list of the provider                     *)

InitHook ==
    /\ agreements = initialAgreements
    /\ supabaseConfigured = FALSE
    /\ db = <<>>
    /\ pending = <<>>
    /\ removed = {}
    /\ calls = 0
    /\ listId = 0 /\ memoDeps = -1 /\ inflight = <<>> /\ requests = <<>>
    /\ now \in NowSet
    /\ op = "none"
    /\ arg = 0
    /\ issues = <<>>
    /\ score = 0
    /\ analysisToday = 0 /\ sum = 0 /\ index = 0

\* a render of a page that calls useComplianceAnalysis(agreements): useMemo
\* runs analyzeCompliance when the array is not the one of the last run
Render ==
    /\ IF memoDeps = listId
       THEN UNCHANGED <<issues, memoDeps>>
       ELSE /\ issues' = analyzeCompliance(agreements, now)
            /\ memoDeps' = listId
    /\ agreements' = ArgumentAfterCall(agreements)
    /\ op' = "useComplianceAnalysis"
    /\ arg' = 0
    /\ UNCHANGED <<now, score, clockVars, supabaseConfigured, db, pending, removed>>
    /\ UNCHANGED <<calls, listId, apiVars>>

\* issues.filter((issue) => issue.type === type).length
CountOfType(list, type) == Cardinality({k \in 1..Len(list) : list[k].type = type})

NextHook ==
    \/ AddAgreementMock
    \/ RemoveAgreement
    \/ EditAgreement
    \/ RefreshAgreements
    \/ Tick
    \/ Render

SpecHook == InitHook /\ [][NextHook]_vars

-----------------------------------------------------------------------------
(* UploadModal: the creation flow                                          *)

\* the values of a date input: '' and two days
UploadDates == {InvalidDate, 10, FarDay}

\* the form data of UploadModal when Add Agreement is pressed
UploadForms ==
    [name : {"", "Vendor BAA"}, counterparty : {"Vendor Inc."},
     type : {"subcontractor"},
     effectiveDate : UploadDates, expirationDate : UploadDates,
     breachNotification : {0, 24}, terminationNotice : {30},
     auditRights : {TRUE}, subcontractorApproval : {"required"}]

\* validateForm: true when no error was recorded
validateForm(formData) ==
    /\ formData.name # ""
    /\ formData.counterparty # ""
    /\ ~(/\ formData.effectiveDate # InvalidDate
         /\ formData.expirationDate # InvalidDate
         /\ DateParse(formData.effectiveDate) >= DateParse(formData.expirationDate))
    /\ ~(formData.breachNotification < 1)
    /\ ~(formData.terminationNotice < 1)

InitUpload == InitContext /\ ~supabaseConfigured

\* handleSubmit of UploadModal without Supabase: validateForm, then the mock
\* branch of addAgreement
HandleSubmit ==
    /\ ~supabaseConfigured
    /\ Len(agreements) < MaxList
    /\ NextId(agreements) <= MaxId
    /\ \E formData \in UploadForms :
          /\ arg' = formData
          /\ IF validateForm(formData)
             THEN /\ agreements' =
                        Append(agreements,
                               [effectiveDate |-> formData.effectiveDate]
                                  @@ NewAgreementOf(NextId(agreements), formData,
                                                    "pending", InitialVersion.changes))
                  /\ listId' = calls + 1
                  /\ op' = "handleSubmit"
             ELSE /\ UNCHANGED <<agreements, listId>>
                  /\ op' = "handleSubmit:rejected"
    /\ Call
    /\ UNCHANGED <<now, issues, score, clockVars, supabaseConfigured, db, pending, removed>>
    /\ UNCHANGED <<hookVars, apiVars>>

NextUpload == HandleSubmit

SpecUpload == InitUpload /\ [][NextUpload]_vars

-----------------------------------------------------------------------------
(* updateAgreement of the API, statement by statement                      *)

MaxUpdates == 3

InitVersions ==
    /\ agreements = initialAgreements
    /\ supabaseConfigured = TRUE
    /\ db = StoredRows
    /\ pending = <<>>
    /\ removed = {}
    /\ calls = 0
    /\ listId = 0 /\ memoDeps = -1 /\ inflight = <<>> /\ requests = <<>>
    /\ now = 0
    /\ op = "none"
    /\ arg = 0
    /\ issues = <<>>
    /\ score = 0
    /\ analysisToday = 0 /\ sum = 0 /\ index = 0

\* what a step of the API leaves alone
ApiFrame == UNCHANGED <<agreements, now, issues, score, clockVars, supabaseConfigured, pending, removed, calls, listId, hookVars, requests>>

\* a call starts: the update of the compliance terms
StartUpdate ==
    /\ Len(inflight) < MaxUpdates
    /\ \E h \in FormHours :
          db' = [db EXCEPT ![1].compliance_terms[1].breach_notification_hours = h]
    /\ inflight' = Append(inflight, [pc |-> "select", newVersion |-> 0])
    /\ op' = "updateAgreementAPI:update"
    /\ arg' = Len(inflight) + 1
    /\ ApiFrame

\* select current_version; newVersion = (current_version || 1) + 1
SelectVersion(c) ==
    /\ inflight[c].pc = "select"
    /\ inflight' = [inflight EXCEPT ![c] =
                       [pc |-> "update",
                        newVersion |-> (IF db[1].current_version = 0 THEN 1
                                        ELSE db[1].current_version) + 1]]
    /\ op' = "updateAgreementAPI:select"
    /\ arg' = c
    /\ UNCHANGED db
    /\ ApiFrame

\* update({ current_version: newVersion })
UpdateVersion(c) ==
    /\ inflight[c].pc = "update"
    /\ db' = [db EXCEPT ![1].current_version = inflight[c].newVersion]
    /\ inflight' = [inflight EXCEPT ![c].pc = "insert"]
    /\ op' = "updateAgreementAPI:version"
    /\ arg' = c
    /\ ApiFrame

\* insert into agreement_versions: UNIQUE(agreement_id, version_number)
\* refuses a second row of the number, and the error is not looked at
InsertVersion(c) ==
    /\ inflight[c].pc = "insert"
    /\ db' = IF \E v \in 1..Len(db[1].versions) :
                    db[1].versions[v].version_number = inflight[c].newVersion
             THEN db
             ELSE [db EXCEPT ![1].versions =
                      Append(@, [version_number |-> inflight[c].newVersion,
                                 changes |-> "Agreement updated"])]
    /\ inflight' = [inflight EXCEPT ![c].pc = "done"]
    /\ op' = "updateAgreementAPI"
    /\ arg' = c
    /\ ApiFrame

NextVersions ==
    \/ StartUpdate
    \/ \E c \in 1..Len(inflight) : SelectVersion(c)
    \/ \E c \in 1..Len(inflight) : UpdateVersion(c)
    \/ \E c \in 1..Len(inflight) : InsertVersion(c)

SpecVersions == InitVersions /\ [][NextVersions]_vars

-----------------------------------------------------------------------------
(* Signature requests                                                      *)

MaxRequests == 3

SignatureRequestStatuses == {"pending", "sent", "viewed", "signed", "declined"}

\* the number of signers of one createSignatureRequests
SignerCounts == {1, 2}

InitSignatures ==
    /\ agreements = initialAgreements
    /\ supabaseConfigured = TRUE
    /\ db = <<CreatedRow(UuidOf(1), CHOOSE f \in NewAgreements : TRUE, 3)>>
    /\ pending = <<>>
    /\ removed = {}
    /\ calls = 0
    /\ listId = 0 /\ memoDeps = -1 /\ inflight = <<>> /\ requests = <<>>
    /\ now = 0
    /\ op = "none"
    /\ arg = 0
    /\ issues = <<>>
    /\ score = 0
    /\ analysisToday = 0 /\ sum = 0 /\ index = 0

\* what a call of the signature API leaves alone
SignatureFrame == UNCHANGED <<agreements, now, issues, score, clockVars, supabaseConfigured, pending, removed, calls, listId, hookVars, inflight>>

\* createSignatureRequests: the rows, status 'pending', then the agreement
\* to 'pending'; an insert that fails throws before the agreement is touched
CreateSignatureRequests ==
    /\ \E n \in SignerCounts, ok \in BOOLEAN :
          /\ Len(requests) + n <= MaxRequests
          /\ arg' = n
          /\ IF ok
             THEN /\ requests' = requests \o [k \in 1..n |-> "pending"]
                  /\ db' = [db EXCEPT ![1].signature_status = "pending"]
                  /\ op' = "createSignatureRequests"
             ELSE /\ UNCHANGED <<requests, db>>
                  /\ op' = "createSignatureRequests:failed"
    /\ SignatureFrame

\* updateSignatureStatus(requestId, status): the row, then the agreement
\* when every request of it is signed
UpdateSignatureStatus ==
    /\ \E k \in 1..Len(requests), status \in SignatureRequestStatuses, ok \in BOOLEAN :
          /\ arg' = k
          /\ IF ok
             THEN LET allRequests == [requests EXCEPT ![k] = status]
                      allSigned == \A r \in 1..Len(allRequests) :
                                      allRequests[r] = "signed"
                  IN  /\ requests' = allRequests
                      /\ db' = IF allSigned
                               THEN [db EXCEPT ![1].signature_status = "fully-executed",
                                               ![1].status = "active"]
                               ELSE db
                      /\ op' = "updateSignatureStatus"
             ELSE /\ UNCHANGED <<requests, db>>
                  /\ op' = "updateSignatureStatus:failed"
    /\ SignatureFrame

NextSignatures ==
    \/ CreateSignatureRequests
    \/ UpdateSignatureStatus

SpecSignatures == InitSignatures /\ [][NextSignatures]_vars

-----------------------------------------------------------------------------
(* Properties                                                              *)

Analyzed == op = "analyzeCompliance"
ScoredOne == op = "calculateAgreementComplianceScore"
ScoredAll == op = "calculateOverallComplianceScore"

\* the number of issues of a category whose affectedAgreements is names
CountIssues(category, names) ==
    Cardinality({k \in 1..Len(issues) :
                    /\ issues[k].category = category
                    /\ issues[k].affectedAgreements = names})

IssuesOf(category) == SelectSeq(issues, LAMBDA x : x.category = category)

Indices == 1..Len(agreements)

\* C1: in the list returned by analyzeCompliance no warning issue stands
\* before a critical issue.
C1_CriticalFirst ==
    Analyzed =>
        \A i, j \in 1..Len(issues) :
            i < j => ~(issues[i].type = "warning" /\ issues[j].type = "critical")

\* the rules pushed a warning before a critical issue, so the sort moved it
C1_Witness ==
    /\ Analyzed
    /\ LET pushed == PushedIssues(agreements, now)
       IN  \E i, j \in 1..Len(pushed) :
               i < j /\ pushed[i].type = "warning" /\ pushed[j].type = "critical"
    /\ \E k \in 1..Len(issues) : issues[k].category = "Breach Notification Cascade"
    /\ \E k \in 1..Len(issues) : issues[k].category = "Audit Rights"

\* hours from now to the midnight that starts the expirationDate of agreement i
HoursLeft(i) == agreements[i].expirationDate * HoursPerDay - now

ValidDate(i) == agreements[i].expirationDate # InvalidDate

NameOf(i) == agreements[i].name

\* C2: analyzeCompliance returns exactly one critical 'Breach Notification
\* Cascade' issue, naming [subcontractor, business associate], for each pair
\* of a subcontractor and a business associate of the input where the
\* subcontractor's breachNotification is greater, none for any other pair,
\* and as many cascade issues as there are such pairs.
C2_CascadePairs ==
    Analyzed =>
        LET cascade == "Breach Notification Cascade"
            Violates(i, j) ==
                /\ agreements[i].type = "subcontractor"
                /\ agreements[j].type = "business-associate"
                /\ agreements[i].breachNotification > agreements[j].breachNotification
        IN  /\ \A i, j \in Indices :
                   CountIssues(cascade, <<NameOf(i), NameOf(j)>>)
                       = IF Violates(i, j) THEN 1 ELSE 0
            /\ \A k \in 1..Len(issues) :
                   issues[k].category = cascade =>
                       /\ issues[k].type = "critical"
                       /\ \E i, j \in Indices :
                              issues[k].affectedAgreements = <<NameOf(i), NameOf(j)>>
            /\ Len(IssuesOf(cascade))
                   = Cardinality({p \in Indices \X Indices : Violates(p[1], p[2])})

\* one subcontractor exceeds two business associates, another one equals the
\* first and is below the second
C2_Witness ==
    /\ Analyzed
    /\ \E s, t, b, c \in Indices :
          /\ b # c /\ s # t
          /\ agreements[s].type = "subcontractor"
          /\ agreements[t].type = "subcontractor"
          /\ agreements[b].type = "business-associate"
          /\ agreements[c].type = "business-associate"
          /\ agreements[s].breachNotification > agreements[b].breachNotification
          /\ agreements[s].breachNotification > agreements[c].breachNotification
          /\ agreements[t].breachNotification = agreements[b].breachNotification
          /\ agreements[t].breachNotification < agreements[c].breachNotification
    /\ Len(IssuesOf("Breach Notification Cascade")) = 2

\* C3: analyzeCompliance returns exactly one 'Agreement Expiration' issue
\* naming an agreement when its expirationDate is after now and at most 90
\* days after now, and none when it is at or before now or more than 90 days
\* after now.
C3_ExpirationWindow ==
    Analyzed =>
        LET expiration == "Agreement Expiration"
            InWindow(i) ==
                /\ ValidDate(i)
                /\ HoursLeft(i) > 0
                /\ HoursLeft(i) <= 90 * HoursPerDay
        IN  /\ \A i \in Indices :
                   CountIssues(expiration, <<NameOf(i)>>)
                       = IF InWindow(i) THEN 1 ELSE 0
            /\ \A k \in 1..Len(issues) :
                   issues[k].category = expiration =>
                       \E i \in Indices : issues[k].affectedAgreements = <<NameOf(i)>>

\* an agreement that expires exactly 90 days from now is flagged next to one
\* that expires exactly now and is not
C3_Witness ==
    /\ Analyzed
    /\ \E i, j \in Indices :
          /\ ValidDate(i) /\ HoursLeft(i) = 90 * HoursPerDay
          /\ ValidDate(j) /\ HoursLeft(j) = 0
          /\ CountIssues("Agreement Expiration", <<NameOf(i)>>) = 1
          /\ CountIssues("Agreement Expiration", <<NameOf(j)>>) = 0

\* C4: every 'Agreement Expiration' issue reports the number of days d with
\* d - 1 days < expirationDate - now <= d days, and is critical when d <= 30
\* and a warning otherwise; now + 25 days gives one critical issue reporting
\* 25 days, now + 60 days one warning issue.
C4_ExpirationSeverity ==
    Analyzed =>
        LET expiration == "Agreement Expiration"
            IssuesFor(i) ==
                SelectSeq(issues, LAMBDA x : /\ x.category = expiration
                                             /\ x.affectedAgreements = <<NameOf(i)>>)
        IN  /\ \A k \in 1..Len(issues) :
                   issues[k].category = expiration =>
                       \E i \in Indices :
                           /\ issues[k].affectedAgreements = <<NameOf(i)>>
                           /\ ValidDate(i)
                           /\ LET d == issues[k].description[1]
                              IN  /\ (d - 1) * HoursPerDay < HoursLeft(i)
                                  /\ HoursLeft(i) <= d * HoursPerDay
                                  /\ issues[k].type
                                         = IF d <= 30 THEN "critical" ELSE "warning"
            /\ \A i \in Indices :
                   ValidDate(i) /\ HoursLeft(i) = 25 * HoursPerDay =>
                       /\ Len(IssuesFor(i)) = 1
                       /\ IssuesFor(i)[1].type = "critical"
                       /\ IssuesFor(i)[1].description[1] = 25
            /\ \A i \in Indices :
                   ValidDate(i) /\ HoursLeft(i) = 60 * HoursPerDay =>
                       /\ Len(IssuesFor(i)) = 1
                       /\ IssuesFor(i)[1].type = "warning"

\* called during the day: the agreement that expires on the 30th day from
\* today is critical with 30 days, the one of the 31st day a warning with 31
C4_Witness ==
    /\ Analyzed
    /\ now % HoursPerDay # 0
    /\ \E k, l \in 1..Len(issues) :
          /\ issues[k].category = "Agreement Expiration"
          /\ issues[k].type = "critical"
          /\ issues[k].description[1] = 30
          /\ issues[l].category = "Agreement Expiration"
          /\ issues[l].type = "warning"
          /\ issues[l].description[1] = 31

\* C5: analyzeCompliance returns exactly one warning 'Audit Rights' issue
\* naming an agreement when it is a business-associate or subcontractor
\* agreement whose auditRights is false, and none for a covered-entity
\* agreement or an agreement whose auditRights is true.
C5_AuditRights ==
    Analyzed =>
        LET audit == "Audit Rights"
            Missing(i) ==
                /\ agreements[i].type \in {"business-associate", "subcontractor"}
                /\ agreements[i].complianceTerms.auditRights = FALSE
        IN  /\ \A i \in Indices :
                   CountIssues(audit, <<NameOf(i)>>) = IF Missing(i) THEN 1 ELSE 0
            /\ \A k \in 1..Len(issues) :
                   issues[k].category = audit =>
                       /\ issues[k].type = "warning"
                       /\ \E i \in Indices :
                              issues[k].affectedAgreements = <<NameOf(i)>>

\* a subcontractor and a covered entity without audit rights and a business
\* associate with them: one issue, for the subcontractor
C5_Witness ==
    /\ Analyzed
    /\ \E i, j, k \in Indices :
          /\ agreements[i].type = "subcontractor"
          /\ ~agreements[i].complianceTerms.auditRights
          /\ agreements[j].type = "covered-entity"
          /\ ~agreements[j].complianceTerms.auditRights
          /\ agreements[k].type = "business-associate"
          /\ agreements[k].complianceTerms.auditRights
          /\ IssuesOf("Audit Rights")
                 = <<Issue("warning", "Audit Rights", <<>>, <<NameOf(i)>>)>>

\* C6: analyzeCompliance returns exactly one warning 'Subcontractor
\* Management' issue naming an agreement when it is a business-associate
\* agreement with subcontractorApproval 'not-applicable' and the input holds
\* a subcontractor agreement, and none otherwise.
C6_SubcontractorGap ==
    Analyzed =>
        LET management == "Subcontractor Management"
            hasSubcontractors ==
                \E j \in Indices : agreements[j].type = "subcontractor"
            Gap(i) ==
                /\ agreements[i].type = "business-associate"
                /\ agreements[i].complianceTerms.subcontractorApproval
                       \notin {"required", "notification"}
                /\ hasSubcontractors
        IN  /\ \A i \in Indices :
                   CountIssues(management, <<NameOf(i)>>) = IF Gap(i) THEN 1 ELSE 0
            /\ \A k \in 1..Len(issues) :
                   issues[k].category = management =>
                       /\ issues[k].type = "warning"
                       /\ \E i \in Indices :
                              issues[k].affectedAgreements = <<NameOf(i)>>

\* a business associate with 'not-applicable', one with 'required' and a
\* subcontractor: one issue, for the first
C6_Witness ==
    /\ Analyzed
    /\ \E i, j, k \in Indices :
          /\ agreements[i].type = "business-associate"
          /\ agreements[i].complianceTerms.subcontractorApproval = "not-applicable"
          /\ agreements[j].type = "business-associate"
          /\ agreements[j].complianceTerms.subcontractorApproval = "required"
          /\ agreements[k].type = "subcontractor"
          /\ IssuesOf("Subcontractor Management")
                 = <<Issue("warning", "Subcontractor Management", <<>>,
                           <<NameOf(i)>>)>>

\* the deductions of the score, stated on the fields of an agreement
NotExecuted(a) == a.signatureStatus \in {"pending", "unsigned"}
Expired(a) == a.status = "expired"
NoAudit(a) ==
    /\ a.type \in {"business-associate", "subcontractor"}
    /\ a.complianceTerms.auditRights = FALSE
LongNotice(a) == a.breachNotification >= 73

\* the expirationDate of a is at most 30 days after now
Within30Days(a) ==
    /\ a.expirationDate # InvalidDate
    /\ a.expirationDate * HoursPerDay - now <= 30 * HoursPerDay

\* the expirationDate of a is after now and at most 30 days after now
Within30DaysAhead(a) ==
    /\ Within30Days(a)
    /\ a.expirationDate * HoursPerDay - now > 0

Points(condition, points) == IF condition THEN points ELSE 0

\* 100 minus the four deductions other than 'expiring soon'
OtherDeductions(a) ==
    100 - Points(NotExecuted(a), 25) - Points(Expired(a), 30)
        - Points(NoAudit(a), 10) - Points(LongNotice(a), 10)

C8_ScoreRange == ScoredOne => score \in 0..100

\* all five deductions stack on an agreement whose expirationDate is past
C8_Witness ==
    /\ ScoredOne
    /\ LET a == agreements[arg]
       IN  /\ NotExecuted(a) /\ Expired(a) /\ NoAudit(a) /\ LongNotice(a)
           /\ Within30Days(a) /\ ~Within30DaysAhead(a)
    /\ score = 10

\* the scores of the agreements of the list, one by one
AgreementScores ==
    [i \in Indices |-> calculateAgreementComplianceScore(agreements[i], now)]

\* C9: the organization score of a non-empty list is the integer nearest to
\* the mean of the scores of its agreements, and is 100 for the empty list.
C9_OverallScore ==
    ScoredAll =>
        IF Len(agreements) = 0
        THEN score = 100
        ELSE LET n == Len(agreements)
                 total == SumSeq(AgreementScores)
                 distance == score * n - total
             IN  /\ 2 * distance <= n
                 /\ 2 * distance >= -n

\* three agreements whose mean is not an integer and rounds up
C9_Witness ==
    /\ ScoredAll
    /\ Len(agreements) = 3
    /\ SumSeq(AgreementScores) % 3 = 2
    /\ score * 3 = SumSeq(AgreementScores) + 1

\* the empty list scores 100
C9_EmptyWitness == ScoredAll /\ Len(agreements) = 0 /\ score = 100

\* C10: the 15 points for 'expiring soon' are deducted exactly when the
\* expirationDate of the agreement is after now and at most 30 days after
\* now; an agreement whose expirationDate is past, or more than 30 days away,
\* keeps them.
C10_SoonIsAhead ==
    ScoredOne =>
        LET a == agreements[arg]
        IN  (score = OtherDeductions(a) - 15) <=> Within30DaysAhead(a)

\* what the code does: the 15 points are deducted exactly when the
\* expirationDate is at most 30 days after now, a past date included
C10_SoonAsCoded ==
    ScoredOne =>
        LET a == agreements[arg]
        IN  (score = OtherDeductions(a) - 15) <=> Within30Days(a)

\* an agreement that expired yesterday loses the 15 points
C10_PastWitness ==
    /\ ScoredOne
    /\ agreements[arg].expirationDate = -1
    /\ score = OtherDeductions(agreements[arg]) - 15

-----------------------------------------------------------------------------
(* Order, frame and dates                                                  *)

\* the position in the input of the agreement called n
IndexOfName(n) == CHOOSE i \in Indices : agreements[i].name = n

\* the number of the rule that pushes the issues of a category
RuleOf(category) ==
    CASE category = "Breach Notification Cascade" -> 1
      [] category = "Agreement Expiration" -> 2
      [] category = "Audit Rights" -> 3
      [] category = "Subcontractor Management" -> 4

\* where a rule finds an issue: the position of the first agreement it names
\* and, for a cascade issue, the position of the second
FirstIndex(x) == IndexOfName(x.affectedAgreements[1])
SecondIndex(x) ==
    IF Len(x.affectedAgreements) > 1 THEN IndexOfName(x.affectedAgreements[2])
    ELSE 0

\* x is pushed before y: an earlier rule, or the same rule and an earlier
\* agreement (for Rule 1 an earlier subcontractor, or the same subcontractor
\* and an earlier business associate)
PushedBefore(x, y) ==
    \/ RuleOf(x.category) < RuleOf(y.category)
    \/ /\ RuleOf(x.category) = RuleOf(y.category)
       /\ \/ FirstIndex(x) < FirstIndex(y)
          \/ FirstIndex(x) = FirstIndex(y) /\ SecondIndex(x) < SecondIndex(y)

\* C11: among the issues of equal severity returned by analyzeCompliance the
\* order is the order of the rules (1, 2, 3, 4) and, within a rule, the order
\* of discovery: input order of the agreements, for Rule 1 subcontractors
\* in input order and for each the business associates in input order.
C11_StableOrder ==
    Analyzed =>
        \A k, l \in 1..Len(issues) :
            k < l /\ issues[k].type = issues[l].type =>
                PushedBefore(issues[k], issues[l])

\* critical issues of Rules 1 and 2 and warnings of Rules 2, 3 and 4, two of
\* them of Rule 3, in one result
C11_Witness ==
    /\ Analyzed
    /\ \E k \in 1..Len(issues) :
          issues[k].type = "critical" /\ RuleOf(issues[k].category) = 1
    /\ \E k \in 1..Len(issues) :
          issues[k].type = "critical" /\ RuleOf(issues[k].category) = 2
    /\ \E k \in 1..Len(issues) :
          issues[k].type = "warning" /\ RuleOf(issues[k].category) = 2
    /\ Len(IssuesOf("Audit Rights")) >= 2
    /\ Len(IssuesOf("Subcontractor Management")) >= 1

\* C13: a call of analyzeCompliance, calculateAgreementComplianceScore or
\* calculateOverallComplianceScore leaves the agreement list as it was: the
\* same agreements in the same order, every field unchanged.
C13_InputUnchanged ==
    [][op' \in {"analyzeCompliance", "calculateAgreementComplianceScore",
                "calculateOverallComplianceScore"}
          => agreements' = agreements]_vars

\* an analysis that returned issues for a list whose first agreement is not
\* a subcontractor and whose second is
C13_Witness ==
    /\ Analyzed
    /\ Len(agreements) >= 2
    /\ agreements[1].type = "business-associate"
    /\ agreements[2].type = "subcontractor"
    /\ Len(agreements[1].versions) = 1
    /\ issues # <<>>

\* C14: every issue returned by analyzeCompliance names at least one
\* agreement, every name is the name of an agreement of the input, and a
\* cascade issue names two agreements, every other issue one.
C14_AffectedAgreements ==
    Analyzed =>
        \A k \in 1..Len(issues) :
            LET names == issues[k].affectedAgreements
            IN  /\ Len(names) >= 1
                /\ \A m \in 1..Len(names) :
                       \E i \in Indices : agreements[i].name = names[m]
                /\ Len(names)
                       = IF issues[k].category = "Breach Notification Cascade"
                         THEN 2 ELSE 1

\* a result with a cascade issue and an issue of another rule
C14_Witness ==
    /\ Analyzed
    /\ Len(IssuesOf("Breach Notification Cascade")) >= 1
    /\ Len(IssuesOf("Audit Rights")) >= 1
    /\ Len(IssuesOf("Agreement Expiration")) >= 1

\* the list with the expirationDate of agreement i replaced by a date that
\* no date-dependent rule looks at
WithoutDate(i) == [agreements EXCEPT ![i].expirationDate = FarDay]

\* C15: when an agreement of the input has an unparseable expirationDate,
\* analyzeCompliance returns no 'Agreement Expiration' issue for it, applies
\* Rules 1, 3 and 4 to it, and returns for the others what it returns when
\* the date-dependent rule does not see that agreement; the score functions
\* return a number from 0 to 100 for it, not NaN.
C15_MalformedDate ==
    /\ Analyzed =>
           \A i \in Indices :
               ~ValidDate(i) =>
                   /\ CountIssues("Agreement Expiration", <<NameOf(i)>>) = 0
                   /\ CountIssues("Audit Rights", <<NameOf(i)>>)
                          = IF NoAudit(agreements[i]) THEN 1 ELSE 0
                   /\ \A j \in Indices :
                          /\ agreements[i].type = "subcontractor"
                          /\ agreements[j].type = "business-associate"
                          /\ agreements[i].breachNotification
                                 > agreements[j].breachNotification
                          => CountIssues("Breach Notification Cascade",
                                         <<NameOf(i), NameOf(j)>>) = 1
                   /\ issues = analyzeCompliance(WithoutDate(i), now)
    /\ ScoredOne /\ ~ValidDate(arg) =>
           /\ score # NaN
           /\ score = OtherDeductions(agreements[arg])
           /\ score \in 0..100
    /\ ScoredAll /\ (\E i \in Indices : ~ValidDate(i)) =>
           score # NaN /\ score \in 0..100

\* a subcontractor without audit rights and with an unparseable date is
\* named by a cascade issue and an audit issue next to an agreement that
\* Rule 2 flags
C15_Witness ==
    /\ Analyzed
    /\ \E i, j \in Indices :
          /\ ~ValidDate(i)
          /\ agreements[i].type = "subcontractor"
          /\ CountIssues("Audit Rights", <<NameOf(i)>>) = 1
          /\ CountIssues("Breach Notification Cascade", <<NameOf(i), NameOf(j)>>) = 1
          /\ CountIssues("Agreement Expiration", <<NameOf(j)>>) = 1

\* the time zones of the clock of the caller: hours ahead of UTC
TimezoneOffsets == {-5, 0}

\* the calendar day of the instant t on a clock offset hours ahead of UTC
LocalDay(t, offset) == (t + offset) \div HoursPerDay

\* the 'Agreement Expiration' issues of a result
ExpirationOutcome(list) ==
    {list[k] : k \in {m \in 1..Len(list) : list[m].category = "Agreement Expiration"}}

\* C16: two calls of analyzeCompliance whose now falls on the same calendar
\* day give the same Rule 2 outcome for every agreement (flagged or not,
\* severity, days), whatever the time of day.
C16_WholeDay ==
    Analyzed =>
        \A offset \in TimezoneOffsets, t \in NowSet :
            LocalDay(t, offset) = LocalDay(now, offset) =>
                ExpirationOutcome(analyzeCompliance(agreements, t))
                    = ExpirationOutcome(issues)

\* what the code gives: the same holds for two instants of one UTC day
C16_SameUTCDay ==
    Analyzed =>
        \A t \in NowSet :
            LocalDay(t, 0) = LocalDay(now, 0) =>
                ExpirationOutcome(analyzeCompliance(agreements, t))
                    = ExpirationOutcome(issues)

\* C17: every call reads the clock once: the result of analyzeCompliance
\* and the result of calculateOverallComplianceScore are the results for
\* one value of now, also when the clock advances during the call.
C17_OneNow ==
    /\ Analyzed => \E t \in NowSet : issues = analyzeCompliance(agreements, t)
    /\ ScoredAll =>
           \E t \in NowSet : score = calculateOverallComplianceScore(agreements, t)

\* the half that the code keeps: analyzeCompliance uses the instant it read
\* before Rule 2
C17_AnalyzeOneNow ==
    Analyzed => issues = analyzeCompliance(agreements, analysisToday)

\* the index of the agreement the last operation was about, in a list
Touched(list, id) == {i \in 1..Len(list) : list[i].id = id}

\* C18: an agreement is created with one version and currentVersion 1, and
\* every completed updateAgreement appends exactly one version record to the
\* agreement in the list and raises its currentVersion by one, leaving the
\* earlier records as they were
C18_VersionLifecycle ==
    [][/\ op' = "addAgreement" =>
             \A i \in Touched(agreements', arg') :
                /\ Len(agreements'[i].versions) = 1
                /\ agreements'[i].currentVersion = 1
       /\ op' = "updateAgreement" =>
             \A i \in Touched(agreements, arg') :
                /\ agreements'[i].currentVersion = agreements[i].currentVersion + 1
                /\ Len(agreements'[i].versions) = Len(agreements[i].versions) + 1
                /\ SubSeq(agreements'[i].versions, 1, Len(agreements[i].versions))
                      = agreements[i].versions]_vars

\* the part of C18 about creation, which the code keeps
C18_CreatedWithOneVersion ==
    [][op' = "addAgreement" =>
          \A i \in Touched(agreements', arg') :
             /\ Len(agreements'[i].versions) = 1
             /\ agreements'[i].currentVersion = 1]_vars

\* C19: in every state of the list each agreement's breachNotification
\* equals its complianceTerms.breachNotificationHours
C19_FlattenedMirrorsTerms ==
    \A i \in 1..Len(agreements) :
       agreements[i].breachNotification
          = agreements[i].complianceTerms.breachNotificationHours

\* C20: an agreement whose removeAgreement completed is in no later list
C20_RemovedStaysOut == \A id \in removed : id \notin IdsOf(agreements)

\* C28: the floor at 0 is never reached: the score of an agreement is at
\* least 10 and a multiple of 5, and the organization score of a non-empty
\* list is at least 10.
C28_FloorNeverReached ==
    /\ ScoredOne => score >= 10 /\ score % 5 = 0
    /\ ScoredAll /\ Len(agreements) > 0 => score >= 10

\* the organization score of a list whose agreements all score 10
C28_Witness ==
    /\ ScoredAll
    /\ Len(agreements) > 0
    /\ \A i \in Indices : AgreementScores[i] = 10
    /\ score = 10

\* C29: for one agreement and one now, a critical 'Agreement Expiration'
\* issue of analyzeCompliance goes with the 15 points of 'expiring soon'
\* taken off its score (at most 85), and a warning one goes with the 15
\* points kept.
C29_ExpirationAgrees ==
    Analyzed =>
        \A k \in 1..Len(issues) :
           issues[k].category = "Agreement Expiration" =>
              LET a == agreements[IndexOfName(issues[k].affectedAgreements[1])]
                  s == calculateAgreementComplianceScore(a, now)
              IN  /\ issues[k].type = "critical" =>
                         s <= 85 /\ s = OtherDeductions(a) - 15
                  /\ issues[k].type = "warning" => s = OtherDeductions(a)

\* an analysis with a critical issue at 30 days and a warning at 31 days
C29_Witness ==
    /\ Analyzed
    /\ \E k \in 1..Len(issues) :
          /\ issues[k].category = "Agreement Expiration"
          /\ issues[k].type = "critical"
          /\ issues[k].description[1] = 30
    /\ \E k \in 1..Len(issues) :
          /\ issues[k].category = "Agreement Expiration"
          /\ issues[k].type = "warning"
          /\ issues[k].description[1] = 31

\* C23: what useComplianceAnalysis exposes at a read (issues, criticalCount,
\* warningCount) is analyzeCompliance of the current list at the time of the
\* read, whatever operations and however much time came before.
C23_RecomputedOnRead ==
    memoDeps = listId =>
        /\ issues = analyzeCompliance(agreements, now)
        /\ CountOfType(issues, "critical")
              = CountOfType(analyzeCompliance(agreements, now), "critical")
        /\ CountOfType(issues, "warning")
              = CountOfType(analyzeCompliance(agreements, now), "warning")

\* the part of C23 about the list, which the code keeps: the value exposed
\* was computed for the current list, at the time of some earlier render
C23_CurrentList ==
    memoDeps = listId =>
        \E t \in NowSet : t <= now /\ issues = analyzeCompliance(agreements, t)

\* C21: in mock mode the id given by addAgreement is new: no agreement of
\* the list and no agreement removed earlier carries it, and the ids of the
\* list stay pairwise different.
C21_UniqueIds ==
    [][op' = "addAgreement" /\ ~supabaseConfigured =>
          /\ arg' \notin (IdsOf(agreements) \cup removed)
          /\ \A i, j \in 1..Len(agreements') :
                 i # j => agreements'[i].id # agreements'[j].id]_vars

\* C24: a completed addAgreement loses nothing: the list it leaves is the
\* list as it was when it completed, every agreement unchanged, plus the new
\* agreement.
C24_NoLostUpdate ==
    [][op' = "addAgreement" =>
          /\ Len(agreements') = Len(agreements) + 1
          /\ \A i \in 1..Len(agreements) : agreements'[i] = agreements[i]]_vars

\* C25: the row written by addAgreement, read back through
\* mapRowToAgreement, has the subcontractorApproval, the breach-notification
\* hours and the auditRights of the form.
C25_TermsRoundTrip ==
    \A k \in 1..Len(pending) :
       LET written == pending[k].form
           read == mapRowToAgreement(pending[k].createdRow)
       IN  /\ read.complianceTerms.subcontractorApproval
                 = written.subcontractorApproval
           /\ read.complianceTerms.breachNotificationHours
                 = written.breachNotification
           /\ read.breachNotification = written.breachNotification
           /\ read.complianceTerms.auditRights = written.auditRights

\* C30: every row fetchAgreements returns has its compliance terms and its
\* version 1.
C30_AllOrNothing ==
    \A k \in 1..Len(fetchAgreements) :
       /\ fetchAgreements[k].compliance_terms # <<>>
       /\ \E v \in 1..Len(fetchAgreements[k].versions) :
             fetchAgreements[k].versions[v].version_number = 1

\* the part of C30 about the list, which the code keeps: a createAgreement
\* that throws leaves the list as it was
C30_ListUnchangedOnFailure ==
    [][op' = "addAgreement:failed" => agreements' = agreements]_vars

\* C22: every agreement that entered the list through handleSubmit has both
\* dates and its expirationDate is after its effectiveDate (a submission
\* with a missing date or with the dates out of order is rejected).
C22_DateOrder ==
    \A i \in 1..Len(agreements) :
       "effectiveDate" \in DOMAIN agreements[i] =>
          /\ agreements[i].effectiveDate # InvalidDate
          /\ agreements[i].expirationDate # InvalidDate
          /\ agreements[i].expirationDate > agreements[i].effectiveDate

\* the part of C22 about a rejected submission, which the code keeps
C22_RejectedUnchanged ==
    [][op' = "handleSubmit:rejected" => agreements' = agreements]_vars

\* what the code enforces: the dates of an agreement created with both
\* dates given are in order
C22_OrderWhenBothGiven ==
    \A i \in 1..Len(agreements) :
       /\ "effectiveDate" \in DOMAIN agreements[i]
       /\ agreements[i].effectiveDate # InvalidDate
       /\ agreements[i].expirationDate # InvalidDate
       => agreements[i].expirationDate > agreements[i].effectiveDate

\* the calls of updateAgreement that have completed
Completed == {c \in 1..Len(inflight) : inflight[c].pc = "done"}

\* C26: when the n calls of updateAgreement started on an agreement have
\* all completed, current_version = 1 + n and agreement_versions holds one
\* record for each number 1..n+1.
C26_VersionsConsistent ==
    Cardinality(Completed) = Len(inflight) =>
        LET n == Len(inflight)
        IN  /\ db[1].current_version = 1 + n
            /\ Len(db[1].versions) = n + 1
            /\ \A m \in 1..(n + 1) :
                   \E v \in 1..Len(db[1].versions) :
                      db[1].versions[v].version_number = m

\* C27: signature_status = 'fully-executed' only while the agreement has a
\* signature request and every request of it is signed.
C27_FullyExecuted ==
    db[1].signature_status = "fully-executed" =>
        /\ Len(requests) > 0
        /\ \A r \in 1..Len(requests) : requests[r] = "signed"


====
